---- MODULE Spec2Model ----
(***************************************************************************)
(* Model of youtube_transcript_api/_api.py: the facade                     *)
(* YouTubeTranscriptApi (get_transcripts, get_transcript), the             *)
(* _TranscriptFetcher (fetch, _sort_splits, _execute_api_request) and the  *)
(* _TranscriptParser (parse).                                              *)
(*                                                                         *)
(* Python strings are sequences of one-character strings, so that          *)
(* str.split, str.find, slicing, str.replace, the `in` test and re.sub are *)
(* computed character by character as CPython computes them.  re.sub has   *)
(* the semantics of Python 3.5 and later (an unmatched group in the        *)
(* replacement template is the empty string).  Floats are modelled by the  *)
(* naturals that the digit strings of the model denote.                    *)
(***************************************************************************)
EXTENDS Naturals, Integers, Sequences, FiniteSets, TLC

(***************************************************************************)
(* Python values                                                           *)
(***************************************************************************)
None == "None"

\* the character sequences of the literals used by the module
BACKSLASH == "\\"

QUOTE == "\""

AMP == <<"&">>

ESCAPED_AMP == <<BACKSLASH, "u", "0", "0", "2", "6">>

LANG_PARAM == <<"&", "l", "a", "n", "g", "=">>

NAME_PARAM == <<"&", "n", "a", "m", "e", "=">>

WATCH_URL == <<"h","t","t","p","s",":","/","/","w","w","w",".","y","o","u","t","u","b","e",".","c","o","m","/","w","a","t","c","h","?","v","=">>

API_BASE_URL == <<"h","t","t","p","s",":","/","/","w","w","w",".","y","o","u","t","u","b","e",".","c","o","m","/","a","p","i","/">>

TIMEDTEXT_STRING == <<"t","i","m","e","d","t","e","x","t","?","v","=">>

(***************************************************************************)
(* str primitives                                                          *)
(***************************************************************************)
\* s[a:b] for 0 <= a, b (Python's 0-based half-open slice)
Slice(s, a, b) == IF b <= a THEN <<>> ELSE SubSeq(s, a + 1, b)

\* s.startswith(p, k): p occurs in s at 0-based offset k
OccursAt(s, p, k) ==
    /\ k + Len(p) <= Len(s)
    /\ \A j \in 1..Len(p) : s[k + j] = p[j]

\* s.find(p, k): least 0-based offset >= k at which p occurs, or -1
RECURSIVE FindFrom(_, _, _)
FindFrom(s, p, k) ==
    IF k + Len(p) > Len(s) THEN -1
    ELSE IF OccursAt(s, p, k) THEN k
    ELSE FindFrom(s, p, k + 1)

Find(s, p) == FindFrom(s, p, 0)

\* p in s
Contains(s, p) == Find(s, p) # -1

\* s.split(sep) for a non-empty separator
RECURSIVE StrSplit(_, _)
StrSplit(s, sep) ==
    LET k == Find(s, sep)
    IN  IF k = -1 THEN <<s>>
        ELSE <<Slice(s, 0, k)>> \o StrSplit(Slice(s, k + Len(sep), Len(s)), sep)

\* s.replace(old, new) for a non-empty old
RECURSIVE StrReplace(_, _, _)
StrReplace(s, old, new) ==
    LET k == Find(s, old)
    IN  IF k = -1 THEN s
        ELSE Slice(s, 0, k) \o new \o StrReplace(Slice(s, k + Len(old), Len(s)), old, new)

\* split[:split.find('"')] : find gives -1 when there is no quote, and
\* s[:-1] is s without its last character
TruncateAtQuote(split) ==
    LET k == Find(split, <<QUOTE>>)
    IN  IF k = -1 THEN Slice(split, 0, Len(split) - 1)
        ELSE Slice(split, 0, k)

\* one element of the list comprehension of fetch
DecodeSplit(split) ==
    StrReplace(StrReplace(TruncateAtQuote(split), ESCAPED_AMP, AMP), <<BACKSLASH>>, <<>>)

\* [f(x) for x in xs]
RECURSIVE MapDecode(_)
MapDecode(splits) ==
    IF splits = <<>> THEN <<>>
    ELSE <<DecodeSplit(Head(splits))>> \o MapDecode(Tail(splits))

timedtext_splits(fetched_site) == MapDecode(StrSplit(fetched_site, TIMEDTEXT_STRING))

\* '&lang={}'.format(language) in split
MatchesLanguage(split, language) == Contains(split, LANG_PARAM \o language)

\* [split for split in timedtext_splits if '&lang=..' in split]
RECURSIVE FilterLanguage(_, _)
FilterLanguage(splits, language) ==
    IF splits = <<>> THEN <<>>
    ELSE (IF MatchesLanguage(Head(splits), language) THEN <<Head(splits)>> ELSE <<>>)
         \o FilterLanguage(Tail(splits), language)

\* the for loop over self.languages, with its break
RECURSIVE matched_splits(_, _)
matched_splits(splits, languages) ==
    IF languages = <<>> THEN <<>>
    ELSE LET m == FilterLanguage(splits, Head(languages))
         IN  IF m # <<>> THEN m ELSE matched_splits(splits, Tail(languages))

\* re.sub(NAME_REGEX, r'\1', s) with NAME_REGEX = &name=.*?(&)|&name=.*
\* scanned from 0-based offset k
RECURSIVE SubNameFrom(_, _)
SubNameFrom(s, k) ==
    IF k >= Len(s) THEN <<>>
    ELSE IF OccursAt(s, NAME_PARAM, k)
         THEN LET q == FindFrom(s, AMP, k + Len(NAME_PARAM))
              IN  IF q # -1 THEN AMP \o SubNameFrom(s, q + 1)
                  ELSE <<>>
         ELSE <<s[k + 1]>> \o SubNameFrom(s, k + 1)

_sort_splits(matched_split) == Len(SubNameFrom(matched_split, 0))

\* min that keeps the last of the elements whose key is least
RECURSIVE MinFromLast(_, _)
MinFromLast(best, rest) ==
    IF rest = <<>> THEN best
    ELSE IF _sort_splits(Head(rest)) <= _sort_splits(best)
         THEN MinFromLast(Head(rest), Tail(rest))
         ELSE MinFromLast(best, Tail(rest))

\* min(xs, key=...): the first element whose key is least
RECURSIVE MinFrom(_, _)
MinFrom(best, rest) ==
    IF rest = <<>> THEN best
    ELSE IF _sort_splits(Head(rest)) < _sort_splits(best)
         THEN MinFrom(Head(rest), Tail(rest))
         ELSE MinFrom(best, Tail(rest))

MinSplit(splits) == MinFrom(Head(splits), Tail(splits))

(***************************************************************************)
(* _TranscriptParser                                                       *)
(***************************************************************************)
\* an absent value (Python's None) is the empty tuple, a present value x is <<x>>
NoneVal == <<>>

Some(x) == <<x>>

\* re.sub(HTML_TAG_REGEX, '', s) with HTML_TAG_REGEX = <[^>]*> , from offset k
RECURSIVE SubTagsFrom(_, _)
SubTagsFrom(s, k) ==
    IF k >= Len(s) THEN <<>>
    ELSE IF s[k + 1] = "<" /\ FindFrom(s, <<">">>, k + 1) # -1
         THEN SubTagsFrom(s, FindFrom(s, <<">">>, k + 1) + 1)
         ELSE <<s[k + 1]>> \o SubTagsFrom(s, k + 1)

\* unescape of _html_unescaping: the entities &amp; &lt; &gt; in one pass
RECURSIVE UnescapeFrom(_, _)
UnescapeFrom(s, k) ==
    IF k >= Len(s) THEN <<>>
    ELSE IF OccursAt(s, <<"&","a","m","p",";">>, k) THEN <<"&">> \o UnescapeFrom(s, k + 5)
    ELSE IF OccursAt(s, <<"&","l","t",";">>, k) THEN <<"<">> \o UnescapeFrom(s, k + 4)
    ELSE IF OccursAt(s, <<"&","g","t",";">>, k) THEN <<">">> \o UnescapeFrom(s, k + 4)
    ELSE <<s[k + 1]>> \o UnescapeFrom(s, k + 1)

unescape(s) == UnescapeFrom(s, 0)

Digits == <<"0", "1", "2", "3", "4", "5", "6", "7", "8", "9">>

DigitValue(c) == (CHOOSE d \in 1..10 : Digits[d] = c) - 1

IsNumeric(s) == Len(s) > 0 /\ \A k \in 1..Len(s) : \E d \in 1..10 : Digits[d] = s[k]

\* float(s) for a string of digits
RECURSIVE FloatOf(_)
FloatOf(s) ==
    IF s = <<>> THEN 0
    ELSE 10 * FloatOf(SubSeq(s, 1, Len(s) - 1)) + DigitValue(s[Len(s)])

\* float(xml_element.attrib[name]): KeyError, ValueError or the number
Attribute(xml_element, name) ==
    IF name \notin DOMAIN xml_element.attrib THEN [raised |-> "KeyError", value |-> 0]
    ELSE IF ~IsNumeric(xml_element.attrib[name]) THEN [raised |-> "ValueError", value |-> 0]
    ELSE [raised |-> None, value |-> FloatOf(xml_element.attrib[name])]

\* the dict display of parse for one element whose text is not None
Segment(xml_element) ==
    LET text  == SubTagsFrom(unescape(xml_element.text[1]), 0)
        start == Attribute(xml_element, "start")
        dur   == Attribute(xml_element, "dur")
    IN  IF start.raised # None THEN [raised |-> start.raised, value |-> NoneVal]
        ELSE IF dur.raised # None THEN [raised |-> dur.raised, value |-> NoneVal]
        ELSE [raised |-> None,
              value |-> Some([text |-> text, start |-> start.value, duration |-> dur.value])]

\* a comprehension that builds the segment before it tests the text
RECURSIVE ParseElementsEager(_)
ParseElementsEager(elements) ==
    IF elements = <<>> THEN [raised |-> None, value |-> <<>>]
    ELSE LET start == Attribute(Head(elements), "start")
             dur   == Attribute(Head(elements), "dur")
         IN  IF start.raised # None THEN [raised |-> start.raised, value |-> <<>>]
             ELSE IF dur.raised # None THEN [raised |-> dur.raised, value |-> <<>>]
             ELSE LET rest == ParseElementsEager(Tail(elements))
                  IN  IF rest.raised # None THEN rest
                      ELSE IF Head(elements).text = NoneVal THEN rest
                      ELSE [raised |-> None,
                            value |-> Segment(Head(elements)).value \o rest.value]

\* the list comprehension of parse over the children of the root, in order
RECURSIVE ParseElements(_)
ParseElements(elements) ==
    IF elements = <<>> THEN [raised |-> None, value |-> <<>>]
    ELSE IF Head(elements).text = NoneVal THEN ParseElements(Tail(elements))
    ELSE LET seg == Segment(Head(elements))
         IN  IF seg.raised # None THEN [raised |-> seg.raised, value |-> <<>>]
             ELSE LET rest == ParseElements(Tail(elements))
                  IN  IF rest.raised # None THEN rest
                      ELSE [raised |-> None, value |-> seg.value \o rest.value]

\* _TranscriptParser(plain_data).parse(); plain_data is NoneVal or <<body>>,
\* a body being the document ElementTree.fromstring reads from it
parse(plain_data) ==
    IF plain_data = NoneVal THEN [raised |-> "TypeError", value |-> <<>>]
    ELSE IF plain_data[1].kind # "xml" THEN [raised |-> "ParseError", value |-> <<>>]
    ELSE ParseElements(plain_data[1].children)

(***************************************************************************)
(* Inputs                                                                  *)
(***************************************************************************)
MaxVideos == 3

MaxTracks == 3

MaxChildren == 2

MaxFetches == 2

V1 == <<"v", "1">>

V2 == <<"v", "2">>

VideoIdSet == {V1, V2}

EN == <<"e", "n">>

DE == <<"d", "e">>

LanguageSet == {EN, DE}

\* values of the proxies argument: None, an empty dict, a dict of proxies
ProxyValues == {"None", "{}", "{'https': 'proxy'}"}

Omitted == "omitted"

SeqsUpTo(S, n) == UNION {[1..k -> S] : k \in 0..n}

\* pieces of watch pages
LangEn == ESCAPED_AMP \o <<"l","a","n","g","=","e","n">>

LangDe == ESCAPED_AMP \o <<"l","a","n","g","=","d","e">>

NameX == ESCAPED_AMP \o <<"n","a","m","e","=","x">>

\* what follows a track marker in a page of the locator runs
Chunks ==
    { LangEn \o <<QUOTE>>,
      LangDe \o <<QUOTE>>,
      LangEn \o NameX \o <<QUOTE>>,
      NameX \o LangEn \o <<QUOTE>>,
      <<"x">> \o LangEn \o <<QUOTE>>,
      LangEn,
      LangDe \o <<QUOTE>> \o LangEn }

\* what precedes the first track marker
Prefixes == { <<"x", QUOTE>>, LangDe \o <<QUOTE>> }

RECURSIVE PagesWith(_)
PagesWith(n) ==
    IF n = 0 THEN Prefixes
    ELSE {p \o TIMEDTEXT_STRING \o c : p \in PagesWith(n - 1), c \in Chunks}

LocatorPages == UNION {PagesWith(n) : n \in 0..MaxTracks}

\* the watch pages of the facade runs: both tracks, the english one, none
FacadePages ==
    { <<"x", QUOTE>> \o TIMEDTEXT_STRING \o LangDe \o <<QUOTE>>
                     \o TIMEDTEXT_STRING \o LangEn \o <<QUOTE>>,
      <<"x", QUOTE>> \o TIMEDTEXT_STRING \o LangEn \o <<QUOTE>>,
      <<"x", QUOTE>> }

\* timed-text documents
Element(text, attrib) == [text |-> text, attrib |-> attrib]

EmptyBody == [kind |-> "empty", children |-> <<>>]

MalformedBody == [kind |-> "malformed", children |-> <<>>]

Xml(children) == [kind |-> "xml", children |-> children]

Texts == { <<"<", "b", ">", "h", "i">>, <<"a", "&", "a", "m", "p", ";">> }

AttribValues == { <<"x">>, <<"1", "2">> }

Attribs ==
    UNION { [names -> AttribValues] : names \in SUBSET {"start", "dur"} }

Elements == { Element(t, a) : t \in {NoneVal} \cup {Some(x) : x \in Texts}, a \in Attribs }

ParserBodies == { Xml(c) : c \in SeqsUpTo(Elements, MaxChildren) }

GoodAttrib == [start |-> <<"0">>, dur |-> <<"1", "2">>]

GoodBody == Xml(<<Element(Some(<<"<", "b", ">", "h", "i">>), GoodAttrib),
                  Element(NoneVal, GoodAttrib),
                  Element(Some(<<"a", "&", "a", "m", "p", ";">>), GoodAttrib)>>)

OtherBody == Xml(<<Element(Some(<<"d", "e">>), GoodAttrib)>>)

BadBody == Xml(<<Element(Some(<<"h", "i">>), GoodAttrib),
                 Element(Some(<<"h", "o">>), [start |-> <<"3">>])>>)

(***************************************************************************)
(* State                                                                   *)
(***************************************************************************)
VARIABLES
    video_ids,              \* argument of get_transcripts
    languages,              \* argument
    continue_after_error,   \* argument
    proxies,                \* argument
    site,                   \* the remote: the watch page of each video
    server,                 \* the remote: the timed-text body of each language
    pc,                     \* "loop", "watch", "timedtext", "returned", "raised"
    i,                      \* position of the for loop in video_ids
    data,                   \* local of get_transcripts
    unretrievable_videos,   \* local of get_transcripts
    fetched_site,           \* local of fetch
    timedtext_url,          \* local of fetch
    requests,               \* the HTTP GET calls issued so far
    calls,                  \* the finished get_transcript calls
    result,                 \* the value get_transcripts returned
    raised                  \* the exception get_transcripts raised

vars == <<video_ids, languages, continue_after_error, proxies, site, server, pc, i,
          data, unretrievable_videos, fetched_site, timedtext_url, requests, calls,
          result, raised>>

args == <<video_ids, languages, continue_after_error, proxies, site, server>>

(***************************************************************************)
(* The HTTP capability                                                     *)
(***************************************************************************)
\* `if self.proxies:` is false for None and for an empty dict
Truthy(p) == p \notin {"None", "{}"}

\* requests.get(WATCH_URL.format(video_id=...)[, proxies=...]) of fetch
WatchRequest(call, video_id, p) ==
    [call |-> call, url |-> WATCH_URL \o video_id,
     proxies |-> IF Truthy(p) THEN p ELSE Omitted]

\* an api request that forgets the proxies
ExecuteApiRequestNoProxies(call, url, p) ==
    [call |-> call, url |-> API_BASE_URL \o TIMEDTEXT_STRING \o url, proxies |-> Omitted]

\* requests.get(url[, proxies=...]) of _execute_api_request
_execute_api_request(call, url, p) ==
    [call |-> call, url |-> API_BASE_URL \o TIMEDTEXT_STRING \o url,
     proxies |-> IF Truthy(p) THEN p ELSE Omitted]

\* the value of the first lang parameter of a url, up to the next & or the end
LangOf(url) ==
    LET k == Find(url, LANG_PARAM)
        q == FindFrom(url, AMP, k + Len(LANG_PARAM))
    IN  IF k = -1 THEN <<>>
        ELSE Slice(url, k + Len(LANG_PARAM), IF q = -1 THEN Len(url) ELSE q)

\* the body the timed-text endpoint answers with
ServerBody(srv, url) ==
    IF LangOf(url) \in DOMAIN srv THEN srv[LangOf(url)] ELSE EmptyBody

(***************************************************************************)
(* YouTubeTranscriptApi                                                    *)
(***************************************************************************)
Return(value) ==
    [kind |-> "return", value |-> value, exception |-> None, video_id |-> NoneVal]

Raise(exception, video_id) ==
    [kind |-> "raise", value |-> <<>>, exception |-> exception, video_id |-> Some(video_id)]

\* a get_transcript without its except clause
GetTranscriptUncaught(video_id, fetched) ==
    IF fetched.raised # None
    THEN Raise(fetched.raised, video_id)
    ELSE LET parsed == parse(fetched.value)
         IN  IF parsed.raised # None
             THEN Raise(parsed.raised, video_id)
             ELSE Return(parsed.value)

\* get_transcript, given what fetch() did: fetched.raised is the exception
\* of a failed request, fetched.value the return value of fetch
get_transcript(video_id, fetched) ==
    IF fetched.raised # None
    THEN Raise("CouldNotRetrieveTranscript", video_id)
    ELSE LET parsed == parse(fetched.value)
         IN  IF parsed.raised # None
             THEN Raise("CouldNotRetrieveTranscript", video_id)
             ELSE Return(parsed.value)

\* an except clause that always records the video and goes on
OnExceptionAlwaysAppend(cae) == "append"

\* an except clause that always re-raises
OnExceptionAlwaysRaise(cae) == "raise"

\* the except clause of get_transcripts
OnException(cae) == IF ~cae THEN "raise" ELSE "append"

\* the end of one get_transcript call inside the loop of get_transcripts
Complete(page, url, fetched) ==
    LET video_id == video_ids[i]
        outcome  == get_transcript(video_id, fetched)
    IN  /\ calls' = Append(calls, [video_id |-> video_id, fetched_site |-> page,
                                   timedtext_url |-> url, fetched |-> fetched,
                                   outcome |-> outcome])
        /\ fetched_site' = page
        /\ timedtext_url' = url
        /\ IF outcome.kind = "return"
           THEN /\ data' = (video_id :> outcome.value) @@ data
                /\ i' = i + 1
                /\ pc' = "loop"
                /\ UNCHANGED <<unretrievable_videos, raised>>
           ELSE IF OnException(continue_after_error) = "raise"
           THEN /\ raised' = Some([exception |-> outcome.exception,
                                   video_id |-> outcome.video_id[1]])
                /\ pc' = "raised"
                /\ UNCHANGED <<data, unretrievable_videos, i>>
           ELSE /\ unretrievable_videos' = Append(unretrievable_videos, video_id)
                /\ i' = i + 1
                /\ pc' = "loop"
                /\ UNCHANGED <<data, raised>>
        /\ UNCHANGED <<args, result>>

\* for video_id in video_ids: ... fetch() issues the watch-page request
WatchPageRequest ==
    /\ pc = "loop"
    /\ i <= Len(video_ids)
    /\ requests' = Append(requests, WatchRequest(Len(calls) + 1, video_ids[i], proxies))
    /\ fetched_site' = NoneVal
    /\ timedtext_url' = NoneVal
    /\ pc' = "watch"
    /\ UNCHANGED <<args, i, data, unretrievable_videos, calls, result, raised>>

\* the watch-page request raises
WatchPageFails ==
    /\ pc = "watch"
    /\ Complete(NoneVal, NoneVal, [raised |-> "RequestException", value |-> NoneVal])
    /\ UNCHANGED requests

\* the watch-page request returns: the track is selected and, when there is
\* one, the timed-text request is issued
WatchPageReturns ==
    /\ pc = "watch"
    /\ LET page    == site[video_ids[i]]
           matched == matched_splits(timedtext_splits(page), languages)
       IN  IF matched # <<>>
           THEN /\ fetched_site' = Some(page)
                /\ timedtext_url' = Some(MinSplit(matched))
                /\ requests' = Append(requests,
                       _execute_api_request(Len(calls) + 1, MinSplit(matched), proxies))
                /\ pc' = "timedtext"
                /\ UNCHANGED <<args, i, data, unretrievable_videos, calls, result, raised>>
           ELSE /\ Complete(Some(page), NoneVal, [raised |-> None, value |-> NoneVal])
                /\ UNCHANGED requests

\* the timed-text request raises
TimedTextFails ==
    /\ pc = "timedtext"
    /\ Complete(fetched_site, timedtext_url, [raised |-> "RequestException", value |-> NoneVal])
    /\ UNCHANGED requests

\* the timed-text request returns: `if response: return response`, then parse
TimedTextReturns ==
    /\ pc = "timedtext"
    /\ LET response == ServerBody(server, requests[Len(requests)].url)
       IN  Complete(fetched_site, timedtext_url,
                    [raised |-> None,
                     value |-> IF response.kind # "empty" THEN Some(response) ELSE NoneVal])
    /\ UNCHANGED requests

\* return data, unretrievable_videos
Returns ==
    /\ pc = "loop"
    /\ i > Len(video_ids)
    /\ result' = Some([data |-> data, unretrievable_videos |-> unretrievable_videos])
    /\ pc' = "returned"
    /\ UNCHANGED <<args, i, data, unretrievable_videos, fetched_site, timedtext_url,
                   requests, calls, raised>>

Locals ==
    /\ pc = "loop"
    /\ i = 1
    /\ data = <<>>
    /\ unretrievable_videos = <<>>
    /\ fetched_site = NoneVal
    /\ timedtext_url = NoneVal
    /\ requests = <<>>
    /\ calls = <<>>
    /\ result = NoneVal
    /\ raised = NoneVal

\* calls of get_transcripts on a few videos
Init ==
    /\ video_ids \in SeqsUpTo(VideoIdSet, MaxVideos)
    /\ languages \in {<<>>, <<EN>>, <<DE, EN>>}
    /\ continue_after_error \in BOOLEAN
    /\ proxies = "None"
    /\ site \in [VideoIdSet -> FacadePages]
    /\ server \in {[l \in LanguageSet |-> IF l = DE THEN d ELSE e] :
                      d \in {EmptyBody, OtherBody},
                      e \in {GoodBody, MalformedBody, BadBody}}
    /\ Locals

\* calls of the fetcher with and without proxies
FetcherInit ==
    /\ video_ids \in SeqsUpTo(VideoIdSet, MaxFetches)
    /\ languages \in {<<>>, <<EN>>, <<DE, EN>>}
    /\ continue_after_error = TRUE
    /\ proxies \in ProxyValues
    /\ site \in {[v \in VideoIdSet |-> p] : p \in FacadePages}
    /\ server \in {[l \in LanguageSet |-> IF l = DE THEN d ELSE e] :
                      d \in {EmptyBody, OtherBody},
                      e \in {GoodBody, MalformedBody, BadBody}}
    /\ Locals

\* calls on one video over the watch pages of the locator
LocatorInit ==
    /\ video_ids = <<V1>>
    /\ languages \in {<<>>, <<EN>>, <<DE>>, <<DE, EN>>, <<EN, DE>>}
    /\ continue_after_error = TRUE
    /\ proxies = "None"
    /\ site \in {[v \in VideoIdSet |-> p] : p \in LocatorPages}
    /\ server = [l \in LanguageSet |-> IF l = DE THEN OtherBody ELSE GoodBody]
    /\ Locals

\* calls on one video over the timed-text documents of the parser
ParserInit ==
    /\ video_ids = <<V1>>
    /\ languages = <<EN>>
    /\ continue_after_error = TRUE
    /\ proxies = "None"
    /\ site = [v \in VideoIdSet |-> <<"x", QUOTE>> \o TIMEDTEXT_STRING \o LangEn \o <<QUOTE>>]
    /\ server \in {[l \in LanguageSet |-> b] : b \in ParserBodies}
    /\ Locals

Next ==
    \/ WatchPageRequest
    \/ WatchPageFails
    \/ WatchPageReturns
    \/ TimedTextFails
    \/ TimedTextReturns
    \/ Returns

Spec == Init /\ [][Next]_vars

FetcherSpec == FetcherInit /\ [][Next]_vars

LocatorSpec == LocatorInit /\ [][Next]_vars

ParserSpec == ParserInit /\ [][Next]_vars

(***************************************************************************)
(* Properties                                                              *)
(***************************************************************************)
\* the requests issued by the c-th get_transcript call
RequestsOf(c) == SelectSeq(requests, LAMBDA r : r.call = c)

\* the indices of the children whose text is not None
NonNull(children) == {k \in 1..Len(children) : children[k].text # NoneVal}

\* the index of the j-th child whose text is not None
NthNonNull(children, j) ==
    CHOOSE k \in NonNull(children) : Cardinality({m \in NonNull(children) : m <= k}) = j

\* start and dur are present and numeric
Timed(element) ==
    /\ {"start", "dur"} \subseteq DOMAIN element.attrib
    /\ IsNumeric(element.attrib["start"])
    /\ IsNumeric(element.attrib["dur"])

\* C1: every finished get_transcript call either returned the complete
\* segment list of the document it fetched, or raised
\* CouldNotRetrieveTranscript carrying the video id it was called with; a
\* failure of any stage gives the latter, and nothing else is ever raised.
C1_TwoOutcomes ==
    /\ \A c \in 1..Len(calls) :
          LET call == calls[c]
              failed ==
                  \/ call.fetched.raised # None
                  \/ call.fetched.value = NoneVal
                  \/ call.fetched.value[1].kind # "xml"
                  \/ \E k \in NonNull(call.fetched.value[1].children) :
                        ~Timed(call.fetched.value[1].children[k])
          IN  IF failed
              THEN call.outcome = [kind |-> "raise", value |-> <<>>,
                                   exception |-> "CouldNotRetrieveTranscript",
                                   video_id |-> Some(video_ids[c])]
              ELSE /\ call.outcome.kind = "return"
                   /\ Len(call.outcome.value)
                        = Cardinality(NonNull(call.fetched.value[1].children))
    /\ raised # NoneVal => raised[1].exception = "CouldNotRetrieveTranscript"

\* a call failed on the second child of a document whose first child is fine
C1_Witness ==
    \E c \in 1..Len(calls) :
        /\ calls[c].outcome.kind = "raise"
        /\ calls[c].fetched.value # NoneVal
        /\ calls[c].fetched.value[1].kind = "xml"
        /\ Timed(calls[c].fetched.value[1].children[1])

\* C2: with continue_after_error false the first failing video ends the
\* batch: its failure is what get_transcripts raises, nothing is returned,
\* and no request is issued for a later video.
C2_StopsAtFirstFailure ==
    ~continue_after_error =>
        /\ \A c \in 1..Len(calls) :
              calls[c].outcome.kind = "raise" =>
                  /\ c = Len(calls)
                  /\ pc = "raised"
                  /\ raised = Some([exception |-> "CouldNotRetrieveTranscript",
                                    video_id |-> video_ids[c]])
                  /\ result = NoneVal
                  /\ \A r \in 1..Len(requests) : requests[r].call <= c
        /\ pc = "raised" =>
              /\ Len(calls) >= 1
              /\ calls[Len(calls)].outcome.kind = "raise"

\* the batch was aborted after a success and before the last video
C2_Witness ==
    /\ pc = "raised"
    /\ DOMAIN data # {}
    /\ Len(calls) < Len(video_ids)

\* the ids of the failed calls among the first n, in order
RECURSIVE FailedIds(_)
FailedIds(n) ==
    IF n = 0 THEN <<>>
    ELSE FailedIds(n - 1)
         \o (IF calls[n].outcome.kind = "raise" THEN <<video_ids[n]>> ELSE <<>>)

\* C3: with continue_after_error true get_transcripts never raises; the
\* calls are made one per position of the input, in input order, and the
\* result maps exactly the ids that succeeded to their transcript and lists
\* exactly the failed ids in input order.
C3_ContinuesAfterError ==
    continue_after_error =>
        /\ pc # "raised"
        /\ raised = NoneVal
        /\ \A c \in 1..Len(calls) :
              /\ calls[c].video_id = video_ids[c]
              /\ Len(RequestsOf(c)) >= 1
              /\ RequestsOf(c)[1].url = WATCH_URL \o video_ids[c]
        /\ \A r \in 1..Len(requests) :
              /\ requests[r].call <= Len(video_ids)
              /\ r > 1 => requests[r - 1].call <= requests[r].call
        /\ pc = "returned" =>
              /\ Len(calls) = Len(video_ids)
              /\ result # NoneVal
              /\ DOMAIN result[1].data =
                    {video_ids[c] : c \in {k \in 1..Len(calls) : calls[k].outcome.kind = "return"}}
              /\ \A c \in 1..Len(calls) :
                    (/\ calls[c].outcome.kind = "return"
                     /\ \A k \in (c + 1)..Len(calls) :
                           ~(calls[k].outcome.kind = "return" /\ video_ids[k] = video_ids[c]))
                    => result[1].data[video_ids[c]] = calls[c].outcome.value
              /\ result[1].unretrievable_videos = FailedIds(Len(calls))

\* a batch returned with a success and a failure
C3_Witness ==
    /\ pc = "returned"
    /\ continue_after_error
    /\ DOMAIN result[1].data # {}
    /\ result[1].unretrievable_videos # <<>>

\* the decoded fragment of a chunk as the specification describes it: the
\* chunk up to its first quote, or the whole chunk when it has no quote
SpecFragment(chunk) ==
    LET k == Find(chunk, <<QUOTE>>)
    IN  StrReplace(StrReplace(IF k = -1 THEN chunk ELSE Slice(chunk, 0, k),
                              ESCAPED_AMP, AMP), <<BACKSLASH>>, <<>>)

\* the chunks of a page: what split gives
ChunksOf(page) == StrSplit(page, TIMEDTEXT_STRING)

\* C4: when some fragment that follows a track marker contains &lang=<code>
\* for a code of the list, the selected fragment is one for the first such
\* code of the list.
C4_HighestPriorityLanguage ==
    \A c \in 1..Len(calls) :
        (calls[c].fetched_site # NoneVal /\ languages # <<>>) =>
            LET chunks == ChunksOf(calls[c].fetched_site[1])
                listed == {j \in 1..Len(languages) :
                              \E k \in 2..Len(chunks) :
                                  Contains(SpecFragment(chunks[k]), LANG_PARAM \o languages[j])}
            IN  listed # {} =>
                    LET best == CHOOSE j \in listed : \A m \in listed : j <= m
                    IN  /\ calls[c].timedtext_url # NoneVal
                        /\ Contains(calls[c].timedtext_url[1], LANG_PARAM \o languages[best])

\* get_transcript(video_id, <<language>>) would succeed on this page
Retrievable(page, language) ==
    LET m == matched_splits(timedtext_splits(page), <<language>>)
    IN  /\ m # <<>>
        /\ LET body == ServerBody(server, API_BASE_URL \o TIMEDTEXT_STRING \o MinSplit(m))
           IN  body.kind # "empty" /\ parse(Some(body)).raised = None

TranscriptOf(page, language) ==
    LET m == matched_splits(timedtext_splits(page), <<language>>)
    IN  parse(Some(ServerBody(server, API_BASE_URL \o TIMEDTEXT_STRING \o MinSplit(m)))).value

\* C5: when no request fails, the call returns the transcript of the first
\* language of the list whose transcript can be retrieved.
C5_FallsBackToNextLanguage ==
    \A c \in 1..Len(calls) :
        (calls[c].fetched.raised = None /\ calls[c].fetched_site # NoneVal) =>
            \A j \in 1..Len(languages) :
                (/\ Retrievable(calls[c].fetched_site[1], languages[j])
                 /\ \A k \in 1..(j - 1) : ~Retrievable(calls[c].fetched_site[1], languages[k]))
                => calls[c].outcome = Return(TranscriptOf(calls[c].fetched_site[1], languages[j]))

\* no decoded split of the page matches a language of the list
NoCandidate(page, langs) ==
    \A j \in 1..Len(langs) : \A k \in 1..Len(timedtext_splits(page)) :
        ~Contains(timedtext_splits(page)[k], LANG_PARAM \o langs[j])

\* C6: a fetch issues one or two requests: the watch page first, then at
\* most one timed-text request, for the selected fragment, with the proxies
\* of the first; without a matching fragment it returns None after one.
C6_OneOrTwoRequests ==
    \A c \in 1..(Len(calls) + 1) :
        LET rs      == RequestsOf(c)
            carried == IF proxies \in {"None", "{}"} THEN Omitted ELSE proxies
            page    == IF c <= Len(calls) THEN calls[c].fetched_site ELSE fetched_site
            sel     == IF c <= Len(calls) THEN calls[c].timedtext_url ELSE timedtext_url
        IN  /\ Len(rs) <= 2
            /\ c <= Len(calls) => Len(rs) >= 1
            /\ Len(rs) >= 1 =>
                  /\ rs[1].url = WATCH_URL \o video_ids[c]
                  /\ rs[1].proxies = carried
            /\ Len(rs) = 2 =>
                  /\ page # NoneVal
                  /\ sel # NoneVal
                  /\ rs[2].url = API_BASE_URL \o TIMEDTEXT_STRING \o sel[1]
                  /\ rs[2].proxies = rs[1].proxies
            /\ (c <= Len(calls) /\ page # NoneVal /\ NoCandidate(page[1], languages)) =>
                  /\ Len(rs) = 1
                  /\ calls[c].fetched = [raised |-> None, value |-> NoneVal]

\* a fetch made its two requests through a proxy
C6_Witness ==
    \E c \in 1..Len(calls) :
        /\ Len(RequestsOf(c)) = 2
        /\ RequestsOf(c)[1].proxies # Omitted

\* the splits that matched the chosen language, in page order
Candidates(call) == matched_splits(timedtext_splits(call.fetched_site[1]), languages)

HasName(split) == Contains(split, NAME_PARAM)

\* the selected split is the first of the candidates of least key
SelectsFirstShortest(call) ==
    LET m == Candidates(call)
    IN  \E k \in 1..Len(m) :
            /\ m[k] = call.timedtext_url[1]
            /\ \A j \in 1..Len(m) :
                  /\ _sort_splits(m[k]) <= _sort_splits(m[j])
                  /\ j < k => _sort_splits(m[k]) < _sort_splits(m[j])

\* C7 as stated: the selected fragment is the first of least length after
\* the removal of name=..., and it has no name= parameter whenever a
\* candidate without one exists beside a candidate with one.
C7_PrefersUnnamed ==
    \A c \in 1..Len(calls) :
        calls[c].timedtext_url # NoneVal =>
            /\ SelectsFirstShortest(calls[c])
            /\ (\E a \in 1..Len(Candidates(calls[c])) : ~HasName(Candidates(calls[c])[a]))
               => ~HasName(calls[c].timedtext_url[1])

\* C7 amended: the selected fragment is the first of least length after
\* the removal of name=...; when it has a name= parameter, every candidate
\* without one is longer than the selected one stripped, or as long and
\* later in the page.
C7_SelectsShortestStripped ==
    \A c \in 1..Len(calls) :
        calls[c].timedtext_url # NoneVal =>
            /\ SelectsFirstShortest(calls[c])
            /\ LET m == Candidates(calls[c])
                   k == CHOOSE n \in 1..Len(m) :
                           /\ m[n] = calls[c].timedtext_url[1]
                           /\ \A j \in 1..(n - 1) : m[j] # m[n]
               IN  \A b \in 1..Len(m) :
                       (HasName(m[k]) /\ ~HasName(m[b])) =>
                           \/ _sort_splits(m[k]) < Len(m[b])
                           \/ _sort_splits(m[k]) = Len(m[b]) /\ k < b

\* a fragment with a name= parameter was selected although a candidate
\* without one and of the same stripped length was in the page
C7_Witness ==
    \E c \in 1..Len(calls) :
        /\ calls[c].timedtext_url # NoneVal
        /\ HasName(calls[c].timedtext_url[1])
        /\ \E b \in 1..Len(Candidates(calls[c])) :
              /\ ~HasName(Candidates(calls[c])[b])
              /\ _sort_splits(Candidates(calls[c])[b]) = _sort_splits(calls[c].timedtext_url[1])

\* C8: the parse of a well-formed document whose children with text all
\* have numeric start and dur gives one segment per child with text, in
\* document order, whatever the attributes of the children without text.
C8_OneSegmentPerTextChild ==
    \A c \in 1..Len(calls) :
        (calls[c].fetched.value # NoneVal /\ calls[c].fetched.value[1].kind = "xml") =>
            LET children == calls[c].fetched.value[1].children
                segments == calls[c].outcome.value
            IN  (\A k \in NonNull(children) : Timed(children[k])) =>
                    /\ calls[c].outcome.kind = "return"
                    /\ Len(segments) = Cardinality(NonNull(children))
                    /\ \A j \in 1..Len(segments) :
                          LET child == children[NthNonNull(children, j)]
                          IN  /\ DOMAIN segments[j] = {"text", "start", "duration"}
                              /\ segments[j].start = FloatOf(child.attrib["start"])
                              /\ segments[j].duration = FloatOf(child.attrib["dur"])
                              /\ segments[j].text = SubTagsFrom(unescape(child.text[1]), 0)

\* a document with a child without text and without attributes was parsed
\* into segments
C8_Witness ==
    \E c \in 1..Len(calls) :
        /\ calls[c].outcome.kind = "return"
        /\ calls[c].outcome.value # <<>>
        /\ \E k \in 1..Len(calls[c].fetched.value[1].children) :
              /\ calls[c].fetched.value[1].children[k].text = NoneVal
              /\ DOMAIN calls[c].fetched.value[1].children[k].attrib = {}

\* C9: the text before the first marker is never a candidate: a page
\* without a marker gives no track and no second request, and a selected
\* fragment is the fragment of a chunk that follows a marker.
C9_LeadingTextDiscarded ==
    \A c \in 1..Len(calls) :
        calls[c].fetched_site # NoneVal =>
            LET chunks == ChunksOf(calls[c].fetched_site[1])
            IN  /\ Len(chunks) = 1 =>
                      /\ calls[c].timedtext_url = NoneVal
                      /\ Len(RequestsOf(c)) = 1
                /\ calls[c].timedtext_url # NoneVal =>
                      \E k \in 2..Len(chunks) :
                          calls[c].timedtext_url[1] = DecodeSplit(chunks[k])

\* C10: the fragment of a chunk without a quote is the whole decoded chunk,
\* so that a track is selected when such a chunk after a marker ends with
\* &lang=<code> for the first language of the list.
C10_ChunkWithoutQuoteIsWhole ==
    \A c \in 1..Len(calls) :
        (calls[c].fetched_site # NoneVal /\ languages # <<>>) =>
            LET chunks == ChunksOf(calls[c].fetched_site[1])
                splits == timedtext_splits(calls[c].fetched_site[1])
            IN  \A k \in 2..Len(chunks) :
                    ~Contains(chunks[k], <<QUOTE>>) =>
                        /\ splits[k] = SpecFragment(chunks[k])
                        /\ Contains(SpecFragment(chunks[k]), LANG_PARAM \o languages[1])
                           => calls[c].timedtext_url # NoneVal

====
